---- MODULE Spec2Model ----
(***************************************************************************)
(* Model of packages/pipeline-core/src/lib.rs (Asteria Studio).            *)
(*                                                                         *)
(*   pub fn process_page_stub(page_id: &str) -> String {                   *)
(*       format!("Processing not yet implemented for {page_id}")           *)
(*   }                                                                     *)
(*                                                                         *)
(* A string is a sequence of characters; a character is a one-element      *)
(* TLA+ string, and a multi-byte character is named by its code point.     *)
(* format! splits its template at the placeholder into a literal piece and *)
(* an argument, creates a new String and writes the literal piece and then *)
(* the argument's Display output into it.  Each step of that is an action  *)
(* of the call, so that calls of independent callers interleave.           *)
(***************************************************************************)
EXTENDS Naturals, Sequences, FiniteSets

\* ------------------------------------------------------------------ bounds
\* Longest enumerated page_id, and the number of independent callers.
MaxLen == 1
NumCallers == 2

Callers == 1..NumCallers

\* ------------------------------------------------------------------ inputs
\* Characters the enumerated identifiers are built from: a character of the
\* literal itself and whitespace.
Alphabet == {"P", " "}

RECURSIVE StringsOfLen(_)
StringsOfLen(n) ==
    IF n = 0 THEN {<< >>}
    ELSE {Append(s, ch) : s \in StringsOfLen(n - 1), ch \in Alphabet}

BoundedStrings == UNION {StringsOfLen(n) : n \in 0..MaxLen}

\* The identifiers of the crate's test and of the documented scenarios, one
\* with format-string braces around a multi-byte character, and one that goes
\* on where another one ends.
Demo == <<"d", "e", "m", "o">>
Page42 == <<"p", "a", "g", "e", "-", "4", "2">>
MyPage == <<"m", "y", " ", "p", "a", "g", "e">>
Braces == <<"{", "U+00E9", "}">>
PSpace == <<"P", " ">>

PageIds == BoundedStrings \cup {Demo, Page42, MyPage, Braces, PSpace}

\* Option<T>: None is the empty tuple, Some(v) the one-element tuple.
None == << >>
Some(v) == <<v>>
Unwrap(o) == o[1]

\* ------------------------------------------------------------------- state
VARIABLES
    pc,        \* per caller: "caller", "literal", "arg", "ret", "returned", "panicked"
    page_id,   \* per caller: the caller's identifier, lent to the call
    arg,       \* per call: the &str parameter of the running call (Option)
    buf,       \* per call: the String format! is writing, empty outside a call
    result     \* per caller: the String returned to it (Option)

vars == <<pc, page_id, arg, buf, result>>

\* ------------------------------------------------------------- format!
\* Variants of the template a slip of the pen would produce: the space in front
\* of the placeholder lost, the braces lost, the placeholder put first.
TemplateNoSpace ==
    <<"P", "r", "o", "c", "e", "s", "s", "i", "n", "g", " ",
      "n", "o", "t", " ",
      "y", "e", "t", " ",
      "i", "m", "p", "l", "e", "m", "e", "n", "t", "e", "d", " ",
      "f", "o", "r",
      "{", "p", "a", "g", "e", "_", "i", "d", "}">>
TemplateNoBraces ==
    <<"P", "r", "o", "c", "e", "s", "s", "i", "n", "g", " ",
      "n", "o", "t", " ",
      "y", "e", "t", " ",
      "i", "m", "p", "l", "e", "m", "e", "n", "t", "e", "d", " ",
      "f", "o", "r", " ",
      "p", "a", "g", "e", "_", "i", "d">>
TemplateArgFirst ==
    <<"{", "p", "a", "g", "e", "_", "i", "d", "}", ":", " ",
      "p", "r", "o", "c", "e", "s", "s", "i", "n", "g", " ",
      "n", "o", "t", " ",
      "y", "e", "t", " ",
      "i", "m", "p", "l", "e", "m", "e", "n", "t", "e", "d">>

\* The template of the format! call, character by character.
Template ==
    <<"P", "r", "o", "c", "e", "s", "s", "i", "n", "g", " ",
      "n", "o", "t", " ",
      "y", "e", "t", " ",
      "i", "m", "p", "l", "e", "m", "e", "n", "t", "e", "d", " ",
      "f", "o", "r", " ",
      "{", "p", "a", "g", "e", "_", "i", "d", "}">>

\* Position of the first ch in s, 0 when there is none.
IndexOf(s, ch) ==
    IF \E i \in 1..Len(s) : s[i] = ch
    THEN CHOOSE i \in 1..Len(s) :
            s[i] = ch /\ \A j \in 1..(i - 1) : s[j] # ch
    ELSE 0

\* format_args! splits the template at its placeholder: the literal piece in
\* front of it, whether there is an argument, and the literal piece behind it.
OpenBrace == IndexOf(Template, "{")
CloseBrace == IndexOf(Template, "}")
HasArg == OpenBrace # 0 /\ CloseBrace > OpenBrace
LiteralPiece ==
    IF HasArg THEN SubSeq(Template, 1, OpenBrace - 1) ELSE Template
TrailingPiece ==
    IF HasArg THEN SubSeq(Template, CloseBrace + 1, Len(Template)) ELSE << >>

\* The placeholder {page_id} carries no format spec: no width, no precision.
\* (ArgOptionsPrecision: what {page_id:.1} would carry.)
ArgOptionsPrecision == [width |-> None, precision |-> Some(1)]
ArgOptions == [width |-> None, precision |-> None]

Min(a, b) == IF a < b THEN a ELSE b

\* Formatter::pad, which <str as Display>::fmt calls: the string cut to the
\* precision when there is one, then filled with spaces on the right up to the
\* width when there is one.
pad(s, opts) ==
    LET t == IF opts.precision = None THEN s
             ELSE SubSeq(s, 1, Min(Unwrap(opts.precision), Len(s)))
    IN  IF opts.width = None \/ Len(t) >= Unwrap(opts.width) THEN t
        ELSE t \o [i \in 1..(Unwrap(opts.width) - Len(t)) |-> " "]

\* <str as Display>::fmt: what is written, and the fmt::Result (never Err).
\* (str_fmt_err: an implementation that refuses the empty string.)
str_fmt_err(s) == [ok |-> s # << >>, out |-> pad(s, ArgOptions)]
str_fmt(s) == [ok |-> TRUE, out |-> pad(s, ArgOptions)]

\* <String as fmt::Write>::write_str: push_str.
write_str(string, s) == string \o s

\* String::new(): the empty buffer format! starts from.  (LeftoverString: a
\* buffer that still holds a message some caller was given.)
LeftoverString ==
    IF \E d \in Callers : result[d] # None
    THEN Unwrap(result[CHOOSE d \in Callers : result[d] # None])
    ELSE << >>
NewString == << >>

\* The whole function on one input, run alone.
process_page_stub(s) ==
    LET lit == write_str(NewString, LiteralPiece)
        mid == IF HasArg THEN write_str(lit, str_fmt(s).out) ELSE lit
    IN  write_str(mid, TrailingPiece)

\* ----------------------------------------------------------------- actions
\* The String a call writes into is the one it created itself.
\* (shared_output: one buffer for all calls, as a static would be.)
shared_output(c) == 1
output(c) == c

Init ==
    /\ pc = [c \in Callers |-> "caller"]
    /\ page_id \in [Callers -> PageIds]
    /\ arg = [c \in Callers |-> None]
    /\ buf = [c \in Callers |-> << >>]
    /\ result = [c \in Callers |-> None]

\* process_page_stub(page_id) is entered: page_id is borrowed and format!
\* creates its output String.
Call(c) ==
    /\ pc[c] = "caller"
    /\ pc' = [pc EXCEPT ![c] = "literal"]
    /\ arg' = [arg EXCEPT ![c] = Some(page_id[c])]
    /\ buf' = [buf EXCEPT ![output(c)] = NewString]
    /\ UNCHANGED <<page_id, result>>

\* fmt::write writes the literal piece.
WriteLiteral(c) ==
    /\ pc[c] = "literal"
    /\ buf' = [buf EXCEPT ![output(c)] = write_str(buf[output(c)], LiteralPiece)]
    /\ pc' = [pc EXCEPT ![c] = "arg"]
    /\ UNCHANGED <<page_id, arg, result>>

\* fmt::write formats the argument; format! panics when that returns Err.
WriteArg(c) ==
    /\ pc[c] = "arg"
    /\ LET r == str_fmt(Unwrap(arg[c]))
       IN  IF ~HasArg
           THEN /\ pc' = [pc EXCEPT ![c] = "ret"]
                /\ buf' = buf
           ELSE IF r.ok
           THEN /\ pc' = [pc EXCEPT ![c] = "ret"]
                /\ buf' = [buf EXCEPT ![output(c)] =
                              write_str(buf[output(c)], r.out)]
           ELSE /\ pc' = [pc EXCEPT ![c] = "panicked"]
                /\ buf' = [buf EXCEPT ![output(c)] = << >>]
    /\ UNCHANGED <<page_id, arg, result>>

\* The trailing piece is written and the String is moved to the caller; the
\* call's frame is gone.
Return(c) ==
    /\ pc[c] = "ret"
    /\ result' = [result EXCEPT ![c] =
                     Some(write_str(buf[output(c)], TrailingPiece))]
    /\ buf' = [buf EXCEPT ![output(c)] = << >>]
    /\ arg' = [arg EXCEPT ![c] = None]
    /\ pc' = [pc EXCEPT ![c] = "returned"]
    /\ UNCHANGED page_id

\* The caller drops the message and goes on with another identifier.
NextPage(c) ==
    /\ pc[c] = "returned"
    /\ \E s \in PageIds : page_id' = [page_id EXCEPT ![c] = s]
    /\ result' = [result EXCEPT ![c] = None]
    /\ pc' = [pc EXCEPT ![c] = "caller"]
    /\ UNCHANGED <<arg, buf>>

\* A step of the function itself, as opposed to one of its caller.
Step(c) == Call(c) \/ WriteLiteral(c) \/ WriteArg(c) \/ Return(c)

Next ==
    \E c \in Callers :
        \/ Call(c)
        \/ WriteLiteral(c)
        \/ WriteArg(c)
        \/ Return(c)
        \/ NextPage(c)

Spec == Init /\ [][Next]_vars

\* A thread that is inside the function keeps running.
FairSpec == Spec /\ \A c \in Callers : WF_vars(Step(c))

\* ------------------------------------------------------------- properties
\* The literal of the documented contract, written out on its own.
ClaimLiteral ==
    <<"P", "r", "o", "c", "e", "s", "s", "i", "n", "g", " ",
      "n", "o", "t", " ",
      "y", "e", "t", " ",
      "i", "m", "p", "l", "e", "m", "e", "n", "t", "e", "d", " ",
      "f", "o", "r", " ">>

Returned(c) == pc[c] = "returned"
InCall(c) == pc[c] \in {"literal", "arg", "ret"}

\* needle occurs in hay as a contiguous run of characters.
Contains(hay, needle) ==
    \E i \in 0..Len(hay) :
        /\ i + Len(needle) <= Len(hay)
        /\ SubSeq(hay, i + 1, i + Len(needle)) = needle

StartsWith(s, p) == Len(p) <= Len(s) /\ SubSeq(s, 1, Len(p)) = p

DropFirst(s, n) == SubSeq(s, n + 1, Len(s))

IsPrefixOf(p, s) == StartsWith(s, p)

\* C1: every returned message is exactly the literal "Processing not yet
\* implemented for " followed by the caller's page_id, nothing before, between
\* or after; "demo" and "my page" give the documented messages.
C1_ExactConcatenation ==
    \A c \in Callers :
        Returned(c) =>
            /\ result[c] = Some(ClaimLiteral \o page_id[c])
            /\ (page_id[c] = Demo =>
                    Unwrap(result[c]) = ClaimLiteral \o <<"d", "e", "m", "o">>)
            /\ (page_id[c] = MyPage =>
                    Unwrap(result[c]) =
                        ClaimLiteral \o <<"m", "y", " ", "p", "a", "g", "e">>)

C1_Witness ==
    \E c, d \in Callers :
        /\ Returned(c) /\ page_id[c] = Demo
        /\ Returned(d) /\ page_id[d] = MyPage

\* C2: every returned message contains the caller's page_id as a contiguous
\* substring, also for the empty page_id and for one with whitespace or special
\* characters.
C2_ContainsPageId ==
    \A c \in Callers :
        Returned(c) => Contains(Unwrap(result[c]), page_id[c])

C2_Witness ==
    \E c, d \in Callers :
        /\ Returned(c) /\ page_id[c] = Braces
        /\ Returned(d) /\ page_id[d] = <<" ">>

\* C3: every returned message begins with the 35-character literal, and for the
\* empty page_id it is exactly that literal.
C3_BeginsWithLiteral ==
    \A c \in Callers :
        Returned(c) =>
            /\ Len(ClaimLiteral) = 35
            /\ StartsWith(Unwrap(result[c]), ClaimLiteral)
            /\ (page_id[c] = << >> => Unwrap(result[c]) = ClaimLiteral)

C3_Witness ==
    \E c, d \in Callers :
        /\ Returned(c) /\ page_id[c] = << >>
        /\ Returned(d) /\ page_id[d] = Page42

\* C4: two completed calls with the same page_id hold identical messages,
\* whatever calls either caller made before and however the calls interleaved.
C4_Deterministic ==
    \A c, d \in Callers :
        (Returned(c) /\ Returned(d) /\ page_id[c] = page_id[d])
            => result[c] = result[d]

C4_Witness ==
    \E c, d \in Callers :
        /\ c # d
        /\ Returned(c) /\ Returned(d)
        /\ page_id[c] = page_id[d]
        /\ page_id[c] = MyPage

\* C5: every call that has been entered completes and hands its caller a
\* message; there is no error outcome.
C5_Total ==
    \A c \in Callers :
        (pc[c] = "literal") ~> (Returned(c) /\ result[c] # None)

C5_Witness ==
    /\ \A c \in Callers : Returned(c) /\ result[c] # None
    /\ \E c \in Callers : page_id[c] = << >>

\* C6: a step of the function leaves every caller's page_id as it was, writes
\* nothing that belongs to another caller, and once it has returned nothing but
\* the message handed to the caller is left of the call.
C6_Pure ==
    [][\A c \in Callers :
          (pc[c] # "returned" /\ pc'[c] # pc[c]) =>
              /\ page_id' = page_id
              /\ \A d \in Callers \ {c} :
                    /\ pc'[d] = pc[d]
                    /\ arg'[d] = arg[d]
                    /\ buf'[d] = buf[d]
                    /\ result'[d] = result[d]
              /\ (pc'[c] = "returned" => arg'[c] = None /\ buf'[c] = << >>)
              /\ (pc'[c] # "returned" => result'[c] = result[c])]_vars

C6_Witness ==
    \E c, d \in Callers :
        /\ Returned(c) /\ page_id[c] = Demo
        /\ arg[c] = None /\ buf[c] = << >>
        /\ pc[d] = "arg" /\ buf[d] = LiteralPiece

\* C7: under every interleaving each call returns what it returns when run
\* alone on its own page_id, and what it has written so far is a part of that:
\* no other call's identifier gets into it.
C7_Isolated ==
    \A c \in Callers :
        /\ Returned(c) => result[c] = Some(process_page_stub(page_id[c]))
        /\ InCall(c) => IsPrefixOf(buf[c], process_page_stub(page_id[c]))

C7_Witness ==
    \E c, d \in Callers :
        /\ c # d
        /\ pc[c] = "ret" /\ pc[d] = "ret"
        /\ page_id[c] = Demo /\ page_id[d] = Braces
        /\ buf[c] # buf[d]

\* C8: different page_ids give different messages, the message without its
\* first 35 characters is the page_id, and it is 35 characters longer.
C8_Injective ==
    /\ \A c, d \in Callers :
          (Returned(c) /\ Returned(d) /\ result[c] = result[d])
              => page_id[c] = page_id[d]
    /\ \A c \in Callers :
          Returned(c) =>
              /\ DropFirst(Unwrap(result[c]), 35) = page_id[c]
              /\ Len(Unwrap(result[c])) = 35 + Len(page_id[c])

C8_Witness ==
    \E c, d \in Callers :
        /\ Returned(c) /\ page_id[c] = <<"P">>
        /\ Returned(d) /\ page_id[d] = PSpace
        /\ result[c] # result[d]

====
